---- MODULE Spec2Model ----
(***************************************************************************)
(* Task Manager API (src/main.py): the request handlers of the FastAPI     *)
(* application, the identity and storage collaborators they call (crud,    *)
(* auth, dependencies: modelled from spec.md, sections 3 and 4) and the    *)
(* response cache that wraps the two list endpoints.                       *)
(*                                                                         *)
(* A handler is one action, except where it makes several calls that other *)
(* requests can come between: /register/ (lookup, creation) and the two    *)
(* cached list endpoints (cache lookup, query, cache store) are one action *)
(* per call.  Each action records the request it served and the response   *)
(* it produced in `resp`, so that the contracts of the handlers can be     *)
(* stated over a step: the storage before it, the request, and the         *)
(* response.  The clock `now` counts seconds.                              *)
(***************************************************************************)
EXTENDS Integers, Sequences, FiniteSets, TLC

VARIABLES
    users,      \* the User table: a sequence of rows, id = position
    tasks,      \* the Task table: a set of rows
    nextTaskId, \* the Task table's autoincrement
    tokens,     \* the bearer tokens issued so far (held by clients)
    cache,      \* the response cache: a set of entries [key, value, at]
    now,        \* the clock, in seconds
    reg,        \* /register/ requests in flight, one per worker thread
    rd,         \* list requests in flight behind the cache, one per worker
    resp        \* the last step's request and its response

vars == <<users, tasks, nextTaskId, tokens, cache, now, reg, rd, resp>>

----------------------------------------------------------------------------
(* Bounds of the model.                                                    *)

MaxTasks == 2
MaxTokens == 2
MaxTime == 3000
MaxCacheTime == 30
MaxRequests == 2
MaxEntries == 2

(* Inputs of the requests.                                                 *)

Emails == {"alice@x.com", "bob@x.com"}
Passwords == {"pw1", "pw2"}
TaskIds == 1..(MaxTasks + 1)
LongSteps == {1000}
ShortSteps == {15}

(* Titles are sequences of characters, so that the search can fold case.   *)
TitleAb == <<"A", "b">>
NoSearch == <<>>
SearchA == <<"a">>

(* An optional field is the empty set (unset) or a singleton.              *)
Unset == {}

(* Absent rows and failed lookups are the empty sequence; a found row r    *)
(* is <<r>>.                                                               *)
None == <<>>

----------------------------------------------------------------------------
(* auth: password hasher and token service (spec.md 4.1, 4.2).             *)

ACCESS_TOKEN_EXPIRE_MINUTES == 30
SECRET_KEY == "server-secret"
OtherKey == "other-secret"

get_password_hash(password) == [alg |-> "salted-slow-hash", of |-> password]

verify_password(plain, hashed) == hashed = get_password_hash(plain)

(* timedelta(minutes=m), in seconds.                                       *)
timedelta_minutes(m) == m * 60

create_access_token(data, expires_delta, t) ==
    [sub |-> data.sub, exp |-> t + expires_delta, key |-> SECRET_KEY]

(* validate: the subject, or "" (Invalid) on a bad signature or when the   *)
(* expiry has passed.                                                      *)
decode_token(tok, t) ==
    IF tok.key # SECRET_KEY \/ t > tok.exp THEN "" ELSE tok.sub

(* A request without Authorization header, and tokens signed with another  *)
(* key.                                                                    *)
NoToken == [sub |-> "", exp |-> 0, key |-> ""]
ForgedTokens == {[sub |-> "alice@x.com", exp |-> MaxTime + 1, key |-> OtherKey]}

----------------------------------------------------------------------------
(* crud: the data-access interface (spec.md 3, 4.4, 4.5).                  *)

get_user_by_email(U, email) ==
    LET m == {i \in 1..Len(U) : U[i].email = email}
    IN  IF m = {} THEN None ELSE <<U[CHOOSE i \in m : \A j \in m : i <= j]>>

create_user_no_unique(U, user) ==
    LET row == [id |-> Len(U) + 1, email |-> user.email,
                hashed_password |-> get_password_hash(user.password)]
    IN  [ok |-> TRUE, users |-> Append(U, row), row |-> <<row>>]

(* The store enforces the unique email: creating a second row with the     *)
(* same email fails (an integrity error) and adds nothing.                 *)
create_user(U, user) ==
    IF get_user_by_email(U, user.email) # None
    THEN [ok |-> FALSE, users |-> U, row |-> None]
    ELSE LET row == [id |-> Len(U) + 1, email |-> user.email,
                     hashed_password |-> get_password_hash(user.password)]
         IN  [ok |-> TRUE, users |-> Append(U, row), row |-> <<row>>]

authenticate_user(U, username, password) ==
    LET u == get_user_by_email(U, username)
    IN  IF u = None THEN None
        ELSE IF ~verify_password(password, u[1].hashed_password) THEN None
        ELSE u

(* dependencies.get_current_user (spec.md 4.3): the user, or None for      *)
(* every failure (bad token, expired token, unknown subject).              *)
get_current_user(U, tok, t) ==
    LET sub == decode_token(tok, t)
    IN  IF sub = "" THEN None ELSE get_user_by_email(U, sub)

get_task(T, task_id) ==
    LET m == {t \in T : t.id = task_id}
    IN  IF m = {} THEN None ELSE <<CHOOSE t \in m : TRUE>>

create_user_task(T, nid, task, user_id) ==
    LET row == [id |-> nid, owner_id |-> user_id, title |-> task.title,
                status |-> task.status,
                priority |-> CHOOSE p \in task.priority : TRUE]
    IN  [tasks |-> T \cup {row}, row |-> row]

(* crud.update_task: the fields the body sets replace the row's.           *)
crud_update_task(T, task_id, body) ==
    LET old == get_task(T, task_id)[1]
        new == [old EXCEPT
                  !.status = IF body.status = Unset THEN @
                             ELSE CHOOSE s \in body.status : TRUE,
                  !.priority = IF body.priority = Unset THEN @
                               ELSE CHOOSE p \in body.priority : TRUE]
    IN  [tasks |-> (T \ {old}) \cup {new}, row |-> new]

crud_delete_task(T, task_id) ==
    LET old == get_task(T, task_id)[1]
    IN  [tasks |-> T \ {old}, row |-> old]

----------------------------------------------------------------------------
(* The response of a request.                                              *)

Response(op, req, status, user, body, detail) ==
    [op |-> op, req |-> req, status |-> status, user |-> user, body |-> body,
     detail |-> detail, challenge |-> "", hit |-> FALSE, calls |-> 0]

Unauthorized(op, req) ==
    [Response(op, req, 401, 0, None, "Could not validate credentials")
        EXCEPT !.challenge = "Bearer"]

(* The response model User: id and email, never the hash.                  *)
UserOut(row) == [id |-> row.id, email |-> row.email]

----------------------------------------------------------------------------
(* POST /register/                                                         *)

(* The handler is a plain `def`, run on a worker thread: the lookup of     *)
(* line 60 and the creation of line 63 are two storage calls, and other    *)
(* requests' calls may come between them.  reg[r] is the request worker r  *)
(* is serving.                                                             *)

Idle == [pc |-> "idle", email |-> "", password |-> ""]

(* Lines 60-62: the lookup, and the 400 when it finds a row.               *)
RegCheck(r, email, password) ==
    /\ reg[r].pc = "idle"
    /\ LET db_user == get_user_by_email(users, email)
           req == [email |-> email, password |-> password]
       IN  IF db_user # None
           THEN /\ reg' = reg
                /\ resp' = Response("register", req, 400, 0, None,
                                    "Email already registered")
           ELSE /\ reg' = [reg EXCEPT ![r] = [pc |-> "checked", email |-> email,
                                              password |-> password]]
                /\ resp' = Response("register_lookup", req, 0, 0, None, "")
    /\ UNCHANGED <<users, tasks, nextTaskId, tokens, cache, now, rd>>

(* Line 63: the creation.  When the store refuses the row the exception    *)
(* is not caught and the request ends 500.                                 *)
RegCreate(r) ==
    /\ reg[r].pc = "checked"
    /\ LET req == [email |-> reg[r].email, password |-> reg[r].password]
           c == create_user(users, req)
       IN  /\ users' = c.users
           /\ resp' = IF c.ok
                      THEN [Response("register", req, 200, 0,
                                     <<UserOut(c.row[1])>>, "")
                               EXCEPT !.calls = 1]
                      ELSE [Response("register", req, 500, 0, None,
                                     "Internal Server Error")
                               EXCEPT !.calls = 1]
    /\ reg' = [reg EXCEPT ![r] = Idle]
    /\ UNCHANGED <<tasks, nextTaskId, tokens, cache, now, rd>>

----------------------------------------------------------------------------
(* POST /token                                                             *)

access_token_expires_seconds == ACCESS_TOKEN_EXPIRE_MINUTES

access_token_expires == timedelta_minutes(ACCESS_TOKEN_EXPIRE_MINUTES)

login_for_access_token(U, username, password, t) ==
    LET user == authenticate_user(U, username, password)
        req == [username |-> username, password |-> password]
    IN  IF user = None
        THEN [Response("login", req, 401, 0, None,
                       "Incorrect username or password")
                 EXCEPT !.challenge = "Bearer"]
        ELSE LET access_token ==
                     create_access_token([sub |-> user[1].email],
                                         access_token_expires, t)
             IN  Response("login", req, 200, user[1].id,
                          <<[access_token |-> access_token,
                             token_type |-> "bearer"]>>, "")

Login(username, password) ==
    LET r == login_for_access_token(users, username, password, now)
        issued == {b.access_token : b \in {r.body[i] : i \in 1..Len(r.body)}}
    IN  /\ Cardinality(tokens \cup issued) <= MaxTokens
        /\ tokens' = tokens \cup issued
        /\ resp' = r
        /\ UNCHANGED <<users, tasks, nextTaskId, cache, now, reg, rd>>

----------------------------------------------------------------------------
(* GET /users/me/                                                          *)

ReadUsersMe(tok) ==
    LET current_user == get_current_user(users, tok, now)
    IN  /\ resp' = IF current_user = None
                   THEN Unauthorized("read_users_me", None)
                   ELSE Response("read_users_me", None, 200,
                                 current_user[1].id,
                                 <<UserOut(current_user[1])>>, "")
        /\ UNCHANGED <<users, tasks, nextTaskId, tokens, cache, now, reg, rd>>

----------------------------------------------------------------------------
(* POST /tasks/                                                            *)

default_priority_falsy(task) ==
    IF task.priority = Unset \/ task.priority = {0}
    THEN [task EXCEPT !.priority = {1}] ELSE task

(* if task.priority is None: task.priority = 1                             *)
default_priority(task) ==
    IF task.priority = Unset THEN [task EXCEPT !.priority = {1}] ELSE task

CreateTaskUnauthenticated(tok, task) ==
    LET current_user == get_current_user(users, tok, now)
        req == [task |-> task]
        uid == IF current_user = None THEN 0 ELSE current_user[1].id
        r == create_user_task(tasks, nextTaskId, default_priority(task), uid)
    IN  /\ Cardinality(tasks) < MaxTasks
        /\ tasks' = r.tasks
        /\ nextTaskId' = nextTaskId + 1
        /\ resp' = IF current_user = None
                   THEN Unauthorized("create_task", req)
                   ELSE [Response("create_task", req, 200, uid, <<r.row>>, "")
                            EXCEPT !.calls = 1]
        /\ UNCHANGED <<users, tokens, cache, now, reg, rd>>

CreateTask(tok, task) ==
    LET current_user == get_current_user(users, tok, now)
        req == [task |-> task]
    IN  IF current_user = None
        THEN /\ resp' = Unauthorized("create_task", req)
             /\ UNCHANGED <<users, tasks, nextTaskId, tokens, cache, now, reg, rd>>
        ELSE LET r == create_user_task(tasks, nextTaskId,
                                       default_priority(task),
                                       current_user[1].id)
             IN  /\ Cardinality(tasks) < MaxTasks
                 /\ tasks' = r.tasks
                 /\ nextTaskId' = nextTaskId + 1
                 /\ resp' = [Response("create_task", req, 200,
                                      current_user[1].id, <<r.row>>, "")
                                EXCEPT !.calls = 1]
                 /\ UNCHANGED <<users, tokens, cache, now, reg, rd>>

----------------------------------------------------------------------------
(* The single-task handlers.  A handler's result: the status, the body,    *)
(* the detail, the number of storage mutations it invoked, and the Task    *)
(* table it leaves.                                                        *)

Outcome(status, body, detail, calls, T) ==
    [status |-> status, body |-> body, detail |-> detail, calls |-> calls,
     tasks |-> T]

(* The default of the parameter current_user, `Depends(get_current_user)`: *)
(* the value the parameter takes when the handler is called as a plain     *)
(* function without it.  It has no attribute `id`.                         *)
DependsDefault == [dependency |-> "get_current_user"]

HasId(obj) == "id" \in DOMAIN obj

(* GET /tasks/{task_id}                                                    *)

read_task_no_owner_check(T, task_id, current_user) ==
    LET db_task == get_task(T, task_id)
    IN  IF db_task = None
        THEN Outcome(404, None, "Task not found", 0, T)
        ELSE Outcome(200, db_task, "", 0, T)

read_task(T, task_id, current_user) ==
    LET db_task == get_task(T, task_id)
    IN  IF db_task = None
        THEN Outcome(404, None, "Task not found", 0, T)
        ELSE IF db_task[1].owner_id # current_user.id
        THEN Outcome(400, None, "Not enough permissions", 0, T)
        ELSE Outcome(200, db_task, "", 0, T)

(* PUT /tasks/{task_id}.  The handler is itself named update_task: its     *)
(* definition (line 141) rebinds the module's name update_task, imported   *)
(* from crud on line 21, so the call on line 152 calls the handler again,  *)
(* with db, task_id and task and with current_user left at its default.    *)
(* In that call `current_user.id` raises AttributeError: the request ends  *)
(* 500 and the store is never written.                                     *)

RECURSIVE update_task(_, _, _, _)
update_task(T, task_id, task, current_user) ==
    LET db_task == get_task(T, task_id)
    IN  IF db_task = None
        THEN Outcome(404, None, "Task not found", 0, T)
        ELSE IF ~HasId(current_user)
        THEN Outcome(500, None, "Internal Server Error", 0, T)
        ELSE IF db_task[1].owner_id # current_user.id
        THEN Outcome(400, None, "Not enough permissions", 0, T)
        ELSE update_task(T, task_id, task, DependsDefault)

(* DELETE /tasks/{task_id}.  As for PUT: the handler's name delete_task    *)
(* (line 155) rebinds the import of line 22, and line 165 calls the        *)
(* handler.                                                                *)

RECURSIVE delete_task(_, _, _)
delete_task(T, task_id, current_user) ==
    LET db_task == get_task(T, task_id)
    IN  IF db_task = None
        THEN Outcome(404, None, "Task not found", 0, T)
        ELSE IF ~HasId(current_user)
        THEN Outcome(500, None, "Internal Server Error", 0, T)
        ELSE IF db_task[1].owner_id # current_user.id
        THEN Outcome(400, None, "Not enough permissions", 0, T)
        ELSE delete_task(T, task_id, DependsDefault)

ById(op, req, tok, o) ==
    /\ tasks' = o.tasks
    /\ resp' = [Response(op, req, o.status,
                         get_current_user(users, tok, now)[1].id,
                         o.body, o.detail) EXCEPT !.calls = o.calls]
    /\ UNCHANGED <<users, nextTaskId, tokens, cache, now, reg, rd>>

Rejected(op, req) ==
    /\ resp' = Unauthorized(op, req)
    /\ UNCHANGED <<users, tasks, nextTaskId, tokens, cache, now, reg, rd>>

ReadTask(tok, task_id) ==
    LET current_user == get_current_user(users, tok, now)
        req == [task_id |-> task_id]
    IN  IF current_user = None
        THEN Rejected("read_task", req)
        ELSE ById("read_task", req, tok,
                  read_task(tasks, task_id, current_user[1]))

UpdateTask(tok, task_id, task) ==
    LET current_user == get_current_user(users, tok, now)
        req == [task_id |-> task_id, task |-> task]
    IN  IF current_user = None
        THEN Rejected("update_task", req)
        ELSE ById("update_task", req, tok,
                  update_task(tasks, task_id, task, current_user[1]))

DeleteTask(tok, task_id) ==
    LET current_user == get_current_user(users, tok, now)
        req == [task_id |-> task_id]
    IN  IF current_user = None
        THEN Rejected("delete_task", req)
        ELSE ById("delete_task", req, tok,
                  delete_task(tasks, task_id, current_user[1]))

----------------------------------------------------------------------------
(* Time passes: d seconds, up to the bound `cap`.  Cache entries older     *)
(* than their expiry are gone.                                             *)

(* @cache(expire=30)                                                       *)
CacheExpire == 30

Live(e, t) == t < e.at + CacheExpire

Tick(d, cap) ==
    /\ now + d <= cap
    /\ now' = now + d
    /\ cache' = {e \in cache : Live(e, now + d)}
    /\ resp' = Response("tick", [d |-> d], 0, 0, None, "")
    /\ UNCHANGED <<users, tasks, nextTaskId, tokens, reg, rd>>

----------------------------------------------------------------------------
(* The task query engine and the priority ranking (spec.md 4.4, 4.5).      *)

Lower(c) == IF c = "A" THEN "a" ELSE IF c = "B" THEN "b" ELSE c

LowerSeq(s) == [i \in 1..Len(s) |-> Lower(s[i])]

Contains(hay, needle) ==
    \E i \in 1..(Len(hay) - Len(needle) + 1) :
        SubSeq(hay, i, i + Len(needle) - 1) = needle

(* Case-insensitive substring match against the title.                     *)
Matches(t, search) ==
    search = NoSearch \/ Contains(LowerSeq(t.title), LowerSeq(search))

SortKey(t, sort_by) == IF sort_by = "priority" THEN t.priority ELSE t.id

(* Ties are broken by id, the order of creation.                           *)
Before(a, b, sort_by, desc) ==
    LET ka == SortKey(a, sort_by)
        kb == SortKey(b, sort_by)
    IN  IF ka = kb THEN a.id <= b.id
        ELSE IF desc THEN ka > kb ELSE ka < kb

RECURSIVE OrderBy(_, _, _)
OrderBy(S, sort_by, desc) ==
    IF S = {} THEN <<>>
    ELSE LET f == CHOOSE t \in S : \A u \in S : Before(t, u, sort_by, desc)
         IN  <<f>> \o OrderBy(S \ {f}, sort_by, desc)

Min(a, b) == IF a <= b THEN a ELSE b

Page(s, skip, limit) == SubSeq(s, skip + 1, Min(Len(s), skip + limit))

(* Unknown sort keys fall back to id ascending; an unrecognised order is   *)
(* ascending.                                                              *)
get_user_tasks(T, user_id, skip, limit, sort_by, sort_order, search, status) ==
    LET rows == {t \in T : /\ t.owner_id = user_id
                           /\ (status = "None" \/ t.status = status)
                           /\ Matches(t, search)}
        key == IF sort_by \in {"priority", "id"} THEN sort_by ELSE "id"
    IN  Page(OrderBy(rows, key, sort_order = "desc"), skip, limit)

get_top_priority_tasks(T, user_id, n) ==
    Page(OrderBy({t \in T : t.owner_id = user_id}, "priority", TRUE), 0, n)

----------------------------------------------------------------------------
(* The response cache (spec.md 4.6): get_or_compute over a keyed store     *)
(* with a time to live.                                                    *)

(* @cache(expire=30) names no key builder: the key is built from the       *)
(* endpoint and the arguments the cached function is called with, all of   *)
(* them, each as it is formatted.  A query parameter is formatted as its    *)
(* value; the session and the User object are formatted as objects are,    *)
(* by their address.                                                       *)
Objects == {"db", "current_user"}

object_repr(o) == o.addr

CacheKey(endpoint, args) ==
    <<endpoint, [f \in DOMAIN args |-> IF f \in Objects
                                       THEN object_repr(args[f])
                                       ELSE args[f]]>>

cache_lookup(C, k, t) == {e \in C : e.key = k /\ Live(e, t)}

(* An entry records, besides its key and value, the arguments of the call  *)
(* that stored it; the lookup reads the key only.                          *)
cache_store(C, k, args, v, t) ==
    {e \in C : e.key # k}
        \cup {[key |-> k, args |-> args, value |-> v, at |-> t]}

(* The objects a request's dependencies hand to the handler: get_db yields *)
(* a session per request, get_current_user a User object per request.      *)
(* An object has an identity, its address.  The objects of the requests in *)
(* flight are all different objects; once a request has ended its objects  *)
(* are freed and a later object may or may not get one of their addresses. *)
AddrSeq == <<"0x7f01", "0x7f02", "0x7f03", "0x7f04">>

Addrs == {AddrSeq[i] : i \in DOMAIN AddrSeq}

get_db(addr) == [addr |-> addr]

(* The User object has the row's attributes, which the handler's body      *)
(* reads (current_user.id), and like every object its address.             *)
UserObject(row, addr) ==
    [addr |-> addr, id |-> row.id, email |-> row.email,
     hashed_password |-> row.hashed_password]

(* The query parameters among the arguments of a cached function.          *)
QueryParams(args) ==
    [f \in DOMAIN args \ Objects |-> args[f]]

IdleRead == [pc |-> "idle"]

(* The addresses of the objects held by the requests in flight.            *)
InFlight == {w \in DOMAIN rd : rd[w].pc # "idle"}

InUse == UNION {{rd[w].args.db.addr, rd[w].current_user.addr} :
                    w \in InFlight}

(* The session and the User object of a new request are two new objects.   *)
Fresh(dbAddr, userAddr) ==
    /\ dbAddr # userAddr
    /\ {dbAddr, userAddr} \cap InUse = {}

(* The decorator's first step: the cache lookup under the key of the       *)
(* call's arguments.  A hit is the response; a miss leaves the request     *)
(* waiting for the handler's body.                                         *)
CachedLookup(w, op, args, current_user) ==
    LET k == CacheKey(op, args)
        found == cache_lookup(cache, k, now)
    IN  /\ IF found # {}
           THEN /\ resp' = [Response(op, args, 200, current_user.id,
                                     (CHOOSE e \in found : TRUE).value, "")
                               EXCEPT !.hit = TRUE]
                /\ rd' = rd
           ELSE /\ resp' = Response("cache_miss", None, 0, 0, None, "")
                /\ rd' = [rd EXCEPT ![w] = [pc |-> "missed", op |-> op,
                                            args |-> args,
                                            current_user |-> current_user,
                                            value |-> None]]
        /\ UNCHANGED <<users, tasks, nextTaskId, tokens, cache, now, reg>>

(* The handler's body has run: its result waits to be stored.              *)
CachedQuery(w, op, v) ==
    /\ rd[w].pc = "missed"
    /\ rd[w].op = op
    /\ rd' = [rd EXCEPT ![w].pc = "computed", ![w].value = v]
    /\ resp' = Response("query", None, 0, 0, None, "")
    /\ UNCHANGED <<users, tasks, nextTaskId, tokens, cache, now, reg>>

(* The decorator's last step: the result is stored under the call's key    *)
(* and returned.                                                           *)
CachedStore(w) ==
    /\ rd[w].pc = "computed"
    /\ cache' = cache_store(cache, CacheKey(rd[w].op, rd[w].args),
                            rd[w].args, rd[w].value, now)
    /\ resp' = [Response(rd[w].op, rd[w].args, 200, rd[w].current_user.id,
                         rd[w].value, "") EXCEPT !.calls = 1]
    /\ rd' = [rd EXCEPT ![w] = IdleRead]
    /\ UNCHANGED <<users, tasks, nextTaskId, tokens, now, reg>>

(* GET /tasks/                                                             *)

(* The arguments of the cached function: its eight parameters.             *)
read_tasks_args(p, db, current_user) ==
    [skip |-> p.skip, limit |-> p.limit, sort_by |-> p.sort_by,
     sort_order |-> p.sort_order, search |-> p.search, status |-> p.status,
     db |-> db, current_user |-> current_user]

read_tasks(T, current_user, p) ==
    get_user_tasks(T, current_user.id, p.skip, p.limit, p.sort_by,
                   p.sort_order, p.search, p.status)

ReadTasksLookup(w, tok, p, dbAddr, userAddr) ==
    LET current_user == get_current_user(users, tok, now)
    IN  /\ rd[w].pc = "idle"
        /\ Fresh(dbAddr, userAddr)
        /\ IF current_user = None
           THEN Rejected("read_tasks", p)
           ELSE LET cu == UserObject(current_user[1], userAddr)
                IN  CachedLookup(w, "read_tasks",
                                 read_tasks_args(p, get_db(dbAddr), cu), cu)

ReadTasksQuery(w) ==
    CachedQuery(w, "read_tasks",
                read_tasks(tasks, rd[w].current_user, rd[w].args))

(* GET /tasks/top_priority/                                                *)

read_top_priority_tasks_args(n, db, current_user) ==
    [n |-> n, db |-> db, current_user |-> current_user]

read_top_priority_tasks(T, current_user, n) ==
    get_top_priority_tasks(T, current_user.id, n)

ReadTopPriorityTasksLookup(w, tok, n, dbAddr, userAddr) ==
    LET current_user == get_current_user(users, tok, now)
    IN  /\ rd[w].pc = "idle"
        /\ Fresh(dbAddr, userAddr)
        /\ IF current_user = None
           THEN Rejected("read_top_priority_tasks", [n |-> n])
           ELSE LET cu == UserObject(current_user[1], userAddr)
                IN  CachedLookup(w, "read_top_priority_tasks",
                                 read_top_priority_tasks_args(n, get_db(dbAddr), cu),
                                 cu)

ReadTopPriorityTasksQuery(w) ==
    CachedQuery(w, "read_top_priority_tasks",
                read_top_priority_tasks(tasks, rd[w].current_user,
                                        rd[w].args.n))

----------------------------------------------------------------------------
(* The specifications.                                                     *)

Init ==
    /\ users = <<>>
    /\ tasks = {}
    /\ nextTaskId = 1
    /\ tokens = {}
    /\ cache = {}
    /\ now = 0
    /\ reg = [r \in 1..MaxRequests |-> Idle]
    /\ rd = [w \in {"r1", "r2"} |-> IdleRead]
    /\ resp = Response("startup", None, 0, 0, None, "")

Bearers == tokens \cup ForgedTokens \cup {NoToken}

Workers == 1..MaxRequests

(* The list requests in flight, at most two at a time.  The places are     *)
(* interchangeable: a new request takes the first that is free.            *)
Readers == {"r1", "r2"}

Place == IF rd["r1"].pc = "idle" THEN {"r1"} ELSE {"r2"}

(* Request bodies.                                                         *)
TaskCreates ==
    {[title |-> TitleAb, status |-> "pending", priority |-> pr] :
        pr \in {Unset, {0}, {2}}}

TaskUpdates == {[status |-> {"done"}, priority |-> Unset],
                [status |-> Unset, priority |-> {3}]}

(* Tasks and the single-task operations.                                   *)
Next ==
    \/ \E e \in Emails : RegCheck(1, e, "pw1")
    \/ RegCreate(1)
    \/ \E e \in Emails : Login(e, "pw1")
    \/ \E tok \in Bearers, task \in TaskCreates : CreateTask(tok, task)
    \/ \E tok \in Bearers, id \in TaskIds : ReadTask(tok, id)
    \/ \E tok \in Bearers, id \in TaskIds, task \in TaskUpdates :
            UpdateTask(tok, id, task)
    \/ \E tok \in Bearers, id \in TaskIds : DeleteTask(tok, id)

Spec == Init /\ [][Next]_vars

(* Accounts and tokens, with tokens expiring as time passes.               *)
NextAuth ==
    \/ \E r \in Workers, e \in Emails, p \in Passwords : RegCheck(r, e, p)
    \/ \E r \in Workers : RegCreate(r)
    \/ \E e \in Emails, p \in Passwords : Login(e, p)
    \/ \E tok \in Bearers : ReadUsersMe(tok)
    \/ \E d \in LongSteps : Tick(d, MaxTime)

SpecAuth == Init /\ [][NextAuth]_vars

(* The list endpoints behind the cache.                                    *)
TopNs == {1}

CacheCreates ==
    {[title |-> TitleAb, status |-> "pending", priority |-> Unset],
     [title |-> TitleAb, status |-> "pending", priority |-> {2}]}

Held == tokens \cup {NoToken}

DefaultParams ==
    [skip |-> 0, limit |-> 100, sort_by |-> "None", sort_order |-> "asc",
     search |-> NoSearch, status |-> "None"]

TopMatchParams ==
    [skip |-> 0, limit |-> 1, sort_by |-> "priority", sort_order |-> "desc",
     search |-> SearchA, status |-> "pending"]

(* A list request that misses is admitted while the cache, with the        *)
(* results the requests in flight may still store, stays within MaxEntries *)
(* entries; a request answered at once is always admitted.                 *)
Admitted ==
    \/ rd' = rd
    \/ Cardinality(cache) + Cardinality(InFlight) < MaxEntries

(* Addresses are names of objects and only their equality matters: the    *)
(* addresses that neither a cache key nor a request in flight holds are    *)
(* interchangeable, and a request that takes a new one takes the first.    *)
Known ==
    InUse \cup {e.key[2].db : e \in cache}
          \cup {e.key[2].current_user : e \in cache}

Candidates(S) ==
    LET free == {i \in DOMAIN AddrSeq : AddrSeq[i] \notin S}
    IN  S \cup (IF free = {} THEN {}
                ELSE {AddrSeq[CHOOSE i \in free : \A j \in free : i <= j]})

Named(dbAddr, userAddr) ==
    /\ dbAddr \in Candidates(Known)
    /\ userAddr \in Candidates(Known \cup {dbAddr})

(* One user's reads of GET /tasks/, with writes between them and the       *)
(* cache entries expiring.                                                 *)
NextCache ==
    \/ RegCheck(1, "alice@x.com", "pw1")
    \/ RegCreate(1)
    \/ Login("alice@x.com", "pw1")
    \/ \E tok \in Held, task \in CacheCreates : CreateTask(tok, task)
    \/ \E w \in Place, tok \in Held, a, b \in Addrs :
            Named(a, b) /\ ReadTasksLookup(w, tok, TopMatchParams, a, b) /\ Admitted
    \/ \E w \in Readers : ReadTasksQuery(w)
    \/ \E w \in Readers : CachedStore(w)
    \/ \E d \in ShortSteps : Tick(d, MaxCacheTime)

SpecCache == Init /\ [][NextCache]_vars

SharedParams == {DefaultParams, TopMatchParams}

(* Two users' reads of both list endpoints through the shared cache.  The  *)
(* behaviours start where alice and bob have registered and logged in and  *)
(* each has created a task, in this order and at time 0; from there on     *)
(* they read.                                                              *)
SharedUsers ==
    create_user(create_user(<<>>, [email |-> "alice@x.com",
                                   password |-> "pw1"]).users,
                [email |-> "bob@x.com", password |-> "pw1"]).users

SharedTokens ==
    {create_access_token([sub |-> e], access_token_expires, 0) : e \in Emails}

SharedCreate == [title |-> TitleAb, status |-> "pending", priority |-> Unset]

SharedTasks ==
    create_user_task(
        create_user_task({}, 1, default_priority(SharedCreate), 1).tasks,
        2, default_priority(SharedCreate), 2)

InitShared ==
    /\ users = SharedUsers
    /\ tasks = SharedTasks.tasks
    /\ nextTaskId = 3
    /\ tokens = SharedTokens
    /\ cache = {}
    /\ now = 0
    /\ reg = [r \in 1..MaxRequests |-> Idle]
    /\ rd = [w \in {"r1", "r2"} |-> IdleRead]
    /\ resp = [Response("create_task", [task |-> SharedCreate], 200, 2,
                        <<SharedTasks.row>>, "") EXCEPT !.calls = 1]

NextShared ==
    \/ \E w \in Place, tok \in tokens, p \in SharedParams, a, b \in Addrs :
            Named(a, b) /\ ReadTasksLookup(w, tok, p, a, b) /\ Admitted
    \/ \E w \in Readers : ReadTasksQuery(w)
    \/ \E w \in Place, tok \in tokens, n \in TopNs, a, b \in Addrs :
            Named(a, b) /\ ReadTopPriorityTasksLookup(w, tok, n, a, b) /\ Admitted
    \/ \E w \in Readers : ReadTopPriorityTasksQuery(w)
    \/ \E w \in Readers : CachedStore(w)

SpecShared == InitShared /\ [][NextShared]_vars

(* Concurrent registrations.                                               *)
NextRace ==
    \/ \E r \in Workers, e \in Emails, p \in Passwords : RegCheck(r, e, p)
    \/ \E r \in Workers : RegCreate(r)

SpecRace == Init /\ [][NextRace]_vars

----------------------------------------------------------------------------
(* The claims.  A claim about a request is stated over the step that       *)
(* served it: the unprimed variables are the store the request found,      *)
(* resp' is the request and its response.                                  *)

ByIdOps == {"read_task", "update_task", "delete_task"}

Authenticated(r) == r.user # 0

(* C1: a single-task operation by an authenticated user ends 404 when no   *)
(* task has the id, and 400 (not 404) when the task is another user's; in  *)
(* neither case is a task returned.                                        *)
C1_NotFoundOrForbidden ==
    [][(resp'.op \in ByIdOps /\ Authenticated(resp')) =>
         LET t == get_task(tasks, resp'.req.task_id)
         IN  /\ t = None => (resp'.status = 404 /\ resp'.body = None)
             /\ (t # None /\ t[1].owner_id # resp'.user) =>
                    (resp'.status = 400 /\ resp'.body = None)]_vars

C1_Witness ==
    /\ resp.op = "read_task"
    /\ resp.status = 400
    /\ get_task(tasks, resp.req.task_id) # None

(* C2: PUT /tasks/{id} by the owner of an existing task ends 200 with the  *)
(* updated task: the storage update is invoked once with the request's id  *)
(* and body, and its result is returned.                                   *)
C2_OwnerUpdateSucceeds ==
    [][(/\ resp'.op = "update_task"
        /\ Authenticated(resp')
        /\ get_task(tasks, resp'.req.task_id) # None
        /\ get_task(tasks, resp'.req.task_id)[1].owner_id = resp'.user) =>
         LET u == crud_update_task(tasks, resp'.req.task_id, resp'.req.task)
         IN  /\ resp'.status = 200
             /\ resp'.calls = 1
             /\ resp'.body = <<u.row>>
             /\ tasks' = u.tasks]_vars

(* C3: DELETE /tasks/{id} by the owner of an existing task ends 200 with   *)
(* the deleted task: the storage delete is invoked once with the request's *)
(* id, and afterwards the task is no longer stored.                        *)
C3_OwnerDeleteSucceeds ==
    [][(/\ resp'.op = "delete_task"
        /\ Authenticated(resp')
        /\ get_task(tasks, resp'.req.task_id) # None
        /\ get_task(tasks, resp'.req.task_id)[1].owner_id = resp'.user) =>
         LET d == crud_delete_task(tasks, resp'.req.task_id)
         IN  /\ resp'.status = 200
             /\ resp'.calls = 1
             /\ resp'.body = <<d.row>>
             /\ tasks' = d.tasks
             /\ get_task(tasks', resp'.req.task_id) = None]_vars

ListOps == {"read_tasks", "read_top_priority_tasks"}

OwnedBy(list, uid) == \A i \in 1..Len(list) : list[i].owner_id = uid

(* C4: two users never share a cache slot: a list served to user u by GET  *)
(* /tasks/ or GET /tasks/top_priority/, computed or taken from the cache,  *)
(* holds only tasks owned by u, and every cache slot holds the tasks of    *)
(* the user it was stored for.                                             *)
C4_NoSharedSlot ==
    /\ (resp.op \in ListOps /\ resp.status = 200) =>
            OwnedBy(resp.body, resp.user)
    /\ \A e \in cache : OwnedBy(e.value, e.args.current_user.id)

(* An entry of GET /tasks/ stored for the same query parameters and the    *)
(* same user, younger than 30 time units.                                  *)
YoungFor(C, args, uid, t) ==
    {e \in C : /\ e.key[1] = "read_tasks"
               /\ QueryParams(e.args) = QueryParams(args)
               /\ e.args.current_user.id = uid
               /\ t - e.at < 30}

(* C5: a GET /tasks/ that comes within 30 time units of a call with the    *)
(* same parameters and identity is a cache hit: it returns the stored      *)
(* result and makes no storage query, whatever was written since; a call   *)
(* that finds no such entry queries the store and returns what it holds.   *)
C5_CacheWithinTtl ==
    [][/\ \A w \in DOMAIN rd :
            (rd[w].pc = "idle" /\ rd'[w].pc = "missed"
                /\ rd'[w].op = "read_tasks") =>
               YoungFor(cache, rd'[w].args, rd'[w].current_user.id, now) = {}
       /\ (resp'.op = "read_tasks" /\ resp'.status = 200 /\ resp'.hit) =>
            /\ resp'.calls = 0
            /\ \E e \in YoungFor(cache, resp'.req, resp'.user, now) :
                  resp'.body = e.value]_vars

(* C6: POST /register/ with an email not yet registered creates the user   *)
(* and ends 200; with a registered email it ends 400 "Email already        *)
(* registered" without calling the creation, the users unchanged.          *)
C6_Register ==
    [][resp'.op = "register" =>
         LET e == resp'.req.email
         IN  IF get_user_by_email(users, e) # None
             THEN /\ resp'.status = 400
                  /\ resp'.detail = "Email already registered"
                  /\ resp'.calls = 0
                  /\ users' = users
             ELSE /\ resp'.status = 200
                  /\ resp'.calls = 1
                  /\ Len(users') = Len(users) + 1
                  /\ SubSeq(users', 1, Len(users)) = users
                  /\ users'[Len(users')].email = e
                  /\ resp'.body = <<[id |-> Len(users'), email |-> e]>>]_vars

(* C7: POST /token ends 401 with WWW-Authenticate: Bearer and no token     *)
(* when the authentication fails; when it succeeds the response carries    *)
(* token_type "bearer" and a token whose subject is the user's email and   *)
(* whose lifetime is ACCESS_TOKEN_EXPIRE_MINUTES.                          *)
C7_Login ==
    [][resp'.op = "login" =>
         LET u == authenticate_user(users, resp'.req.username,
                                    resp'.req.password)
         IN  IF u = None
             THEN /\ resp'.status = 401
                  /\ resp'.challenge = "Bearer"
                  /\ resp'.body = None
                  /\ tokens' = tokens
             ELSE /\ resp'.status = 200
                  /\ Len(resp'.body) = 1
                  /\ resp'.body[1].token_type = "bearer"
                  /\ resp'.body[1].access_token.sub = u[1].email
                  /\ resp'.body[1].access_token.exp - now
                        = ACCESS_TOKEN_EXPIRE_MINUTES * 60
                  /\ resp'.body[1].access_token.key = SECRET_KEY]_vars

C7_Witness ==
    /\ resp.op = "login"
    /\ resp.status = 200
    /\ now > 0
    /\ \E i \in 1..Len(users) :
          /\ users[i].email # resp.req.username
          /\ users[i].hashed_password = get_password_hash(resp.req.password)

(* C8: POST /tasks/ by an authenticated user stores a task owned by that   *)
(* user, with priority 1 when the request carries none and the request's   *)
(* priority (0 included) otherwise.                                        *)
C8_CreateTask ==
    (resp.op = "create_task" /\ resp.status = 200) =>
        /\ Authenticated(resp)
        /\ Len(resp.body) = 1
        /\ resp.body[1] \in tasks
        /\ resp.body[1].owner_id = resp.user
        /\ resp.body[1].priority =
              IF resp.req.task.priority = Unset THEN 1
              ELSE CHOOSE p \in resp.req.task.priority : TRUE

C8_Witness ==
    /\ resp.op = "create_task"
    /\ resp.status = 200
    /\ resp.req.task.priority = {0}
    /\ resp.body[1].priority = 0

(* C9: under any interleaving of the lookups and creations of concurrent   *)
(* registrations, at most one user row has a given email.                  *)
C9_UniqueEmail ==
    \A i, j \in 1..Len(users) : users[i].email = users[j].email => i = j

(* Two requests with the same email both passed the lookup, and the        *)
(* second creation was refused.                                            *)
C9_Witness ==
    /\ resp.op = "register"
    /\ resp.status = 500
    /\ get_user_by_email(users, resp.req.email) # None

MutationOps == {"create_task", "update_task", "delete_task"}

(* C10: a task mutation request that ends 401, 404 or 400 leaves the Task  *)
(* table as it was, and a task is changed or removed only by a request of  *)
(* its owner.                                                              *)
C10_RejectedLeavesTasks ==
    [][/\ (resp'.op \in MutationOps /\ resp'.status \in {401, 404, 400}) =>
            (tasks' = tasks /\ nextTaskId' = nextTaskId)
       /\ \A t \in tasks :
            t \notin tasks' =>
               (resp'.op \in {"update_task", "delete_task"}
                   /\ resp'.user = t.owner_id)]_vars

C10_Witness ==
    /\ resp.op = "create_task"
    /\ resp.status = 401
    /\ tasks # {}
    /\ tokens # {}

====
